---- MODULE Spec2Model ----
(***************************************************************************)
(* Model of the AgniaChallenge token broker (authorizations/src) and of    *)
(* the GitHub action handlers (team_actions/src/actions/GitHub).           *)
(*                                                                         *)
(* The FastAPI endpoints are plain `def` functions, so the server runs     *)
(* them on a thread pool: two callbacks may overlap.  Every blocking HTTP  *)
(* call (requests.post / get / put / patch / delete) is a point where      *)
(* another request can run, so each callback and each handler is cut into  *)
(* steps at its outbound calls.                                            *)
(***************************************************************************)
EXTENDS Integers, Sequences, FiniteSets, TLC

\* ---------------------------------------------------------------- bounds
MaxCallbacks == 2
MaxInvocations == 1

\* ------------------------------------------------------------ Python data
None == "None"

\* Python truthiness of an optional string: None and "" are falsy.
Truthy(v) == v # None /\ v # ""

\* A dict is a function from its keys; {} is the function with no keys.
EmptyDict == [k \in {} |-> None]

\* d[k] = v
DictSet(d, k, v) == [x \in (DOMAIN d) \cup {k} |-> IF x = k THEN v ELSE d[x]]

\* d.get(k, default)
DictGet(d, k, default) == IF k \in DOMAIN d THEN d[k] ELSE default

\* ---------------------------------------------------------- input domains
Systems == {"GitHub", "Todoist"}
Workers == {"w1", "w2"}
Tokens == {"t1", "t2"}
Codes == {None, "", "abc"}
Errors == {None, "access_denied", "invalid_scope", "invalid_application_status"}

\* Token-endpoint payloads: a grant, or a 200 answer without access_token
\* (GitHub answers a bad code with 200 and an "error" field).
GrantPayload(t) == [access_token |-> t, token_type |-> "bearer"]
MalformedPayload == [error |-> "bad_verification_code"]
Payloads == {GrantPayload(t) : t \in Tokens} \cup {MalformedPayload}

\* An HTTP exchange either yields a response with a status code or fails at
\* transport level (requests.exceptions.RequestException, no response).
NoResponse == [kind |-> "none", status |-> 0]
Unreachable == [kind |-> "unreachable", status |-> 0]
Response(st) == [kind |-> "response", status |-> st]
ProviderStatuses == {200, 401, 500}
BackendStatuses == {200, 201, 400, 401, 403, 404, 418, 500}
ProviderResponses == {Response(st) : st \in ProviderStatuses} \cup {Unreachable}
BackendResponses == {Response(st) : st \in BackendStatuses} \cup {Unreachable}

\* What a callback hands back to the web framework.
NoResult == [kind |-> "none", status |-> 0]
HTTPException(st) == [kind |-> "HTTPException", status |-> st]
JSONResponse(st) ==
    [kind |-> "JSONResponse", status |-> st,
     message |-> IF st = 200 THEN "Authorization successful and data saved."
                 ELSE "Unexpected response"]
RawHTTPError(st) == [kind |-> "requests.HTTPError", status |-> st]
RawRequestException == [kind |-> "requests.RequestException", status |-> 0]
RawValueError == [kind |-> "ValueError", status |-> 0]

\* json.dumps(authorization_data_response): the backend receives text, not
\* the dict itself.
json_dumps(d) == [json |-> d]
json_loads(s) == s.json

VARIABLES
    authorization_data,          \* hackathon_utils.authorization_data
    actions_authorization_data,  \* actions.GitHub.actions.authorization_data
    durable,                     \* requests the durable backend accepted
    att,                         \* per worker thread: the callback it serves
    served,                      \* callbacks started so far
    last_exchanged,              \* per system: worker of the latest exchange
    issued,                      \* systems whose authorize URL was handed out
    calls,                       \* per planner thread: the handler it runs
    invoked,                     \* handler invocations started so far
    catalog,                     \* the registered action descriptors, in order
    startup                      \* team_actions start-up: module being imported

handlerVars == <<issued, calls, invoked>>
regVars == <<catalog, startup>>
vars == <<authorization_data, actions_authorization_data, durable, att,
          served, last_exchanged, issued, calls, invoked, catalog, startup>>

Callers == {"c1"}
Shas == {"sha1", "sha2"}
HandlerStatuses == {200, 204, 404}
HandlerResponses == {Response(st) : st \in HandlerStatuses} \cup {Unreachable}

IdleAttempt ==
    [pc |-> "idle", provider |-> None, code |-> None, error |-> None,
     xresp |-> NoResponse, payload |-> EmptyDict, bresp |-> NoResponse,
     result |-> NoResult, xcalls |-> 0, bcalls |-> 0, writes |-> 0,
     hung |-> FALSE]

IdleCall ==
    [pc |-> "idle", action |-> None, token |-> None, sent |-> 0,
     sha |-> None, authorized |-> FALSE, result |-> NoResult,
     repo |-> None, url |-> <<>>, get_response |-> NoResponse,
     body_sha |-> None, reads |-> 0, bearer |-> <<>>]

Init ==
    /\ authorization_data = EmptyDict
    /\ actions_authorization_data = EmptyDict
    /\ durable = <<>>
    /\ att = [w \in Workers |-> IdleAttempt]
    /\ served = 0
    /\ last_exchanged = [s \in Systems |-> None]
    /\ issued = {}
    /\ calls = [c \in Callers |-> IdleCall]
    /\ invoked = 0
    /\ catalog = <<>>
    /\ startup = [pc |-> "start", queue |-> <<>>, imports |-> 0]

\* A worker thread is free before its first request and after it returned.
Free(w) == att[w].pc \in {"idle", "done"}

Finish(a, res) == [a EXCEPT !.pc = "done", !.result = res]

\* ------------------------------------------------- main.py get_github_token
\* Lines 74-88: the guards, then the token-endpoint POST is sent.
get_github_token(w, code, error) ==
    /\ Free(w)
    /\ served < MaxCallbacks
    /\ served' = served + 1
    /\ LET a == [IdleAttempt EXCEPT !.provider = "GitHub",
                                    !.code = code, !.error = error]
       IN att' = [att EXCEPT ![w] =
                    IF error = "access_denied"
                    THEN Finish(a, HTTPException(403))
                    ELSE IF ~Truthy(code)
                    THEN Finish(a, HTTPException(400))
                    ELSE [a EXCEPT !.pc = "exchanging", !.xcalls = @ + 1]]
    /\ UNCHANGED <<regVars, authorization_data, actions_authorization_data, durable,
                   last_exchanged, handlerVars>>

\* Variant of github_token_response: a token endpoint that answers with an
\* error status is asked once more.
github_token_response_retry(w, resp, payload) ==
    /\ att[w].pc = "exchanging"
    /\ ~att[w].hung
    /\ att[w].provider = "GitHub"
    /\ LET a == [att[w] EXCEPT !.xresp = resp]
       IN IF resp.kind = "unreachable"
          THEN /\ att' = [att EXCEPT ![w] = Finish(a, RawRequestException)]
               /\ UNCHANGED last_exchanged
          ELSE IF resp.status >= 400
          THEN /\ att' = [att EXCEPT ![w] =
                            IF a.xcalls < 2
                            THEN [a EXCEPT !.xcalls = @ + 1]
                            ELSE Finish(a, RawHTTPError(resp.status))]
               /\ UNCHANGED last_exchanged
          ELSE /\ att' = [att EXCEPT ![w] =
                            [a EXCEPT !.pc = "persisting", !.payload = payload,
                                      !.bcalls = @ + 1]]
               /\ last_exchanged' = [last_exchanged EXCEPT !["GitHub"] = w]
    /\ UNCHANGED <<regVars, authorization_data, actions_authorization_data, durable,
                   served, handlerVars>>

\* Lines 80-96: the token endpoint answers; raise_for_status() lets the
\* requests exception escape, otherwise the payload goes to
\* save_authorization_data_and_return_response, whose backend POST is sent.
github_token_response(w, resp, payload) ==
    /\ att[w].pc = "exchanging"
    /\ ~att[w].hung
    /\ att[w].provider = "GitHub"
    /\ LET a == [att[w] EXCEPT !.xresp = resp]
       IN IF resp.kind = "unreachable"
          THEN /\ att' = [att EXCEPT ![w] = Finish(a, RawRequestException)]
               /\ UNCHANGED last_exchanged
          ELSE IF resp.status >= 400
          THEN /\ att' = [att EXCEPT ![w] = Finish(a, RawHTTPError(resp.status))]
               /\ UNCHANGED last_exchanged
          ELSE /\ att' = [att EXCEPT ![w] =
                            [a EXCEPT !.pc = "persisting", !.payload = payload,
                                      !.bcalls = @ + 1]]
               /\ last_exchanged' = [last_exchanged EXCEPT !["GitHub"] = w]
    /\ UNCHANGED <<regVars, authorization_data, actions_authorization_data, durable,
                   served, handlerVars>>

\* ------------- hackathon_utils.py save_authorization_data_and_return_response
\* Variant of PersistError: every backend failure of the 5xx class is passed
\* on as an internal error.
PersistError_5xx_as_500(st) ==
    IF st = 400 THEN HTTPException(400)
    ELSE IF st = 401 THEN HTTPException(401)
    ELSE IF st = 403 THEN HTTPException(403)
    ELSE IF st = 404 THEN HTTPException(404)
    ELSE HTTPException(500)

\* The status-to-error mapping of the except branch, lines 50-72.
PersistError(st) ==
    IF st = 400 THEN HTTPException(400)
    ELSE IF st = 401 THEN HTTPException(401)
    ELSE IF st = 403 THEN HTTPException(403)
    ELSE IF st = 404 THEN HTTPException(404)
    ELSE IF st >= 500 THEN HTTPException(502)
    ELSE HTTPException(500)

\* Variant of persist_post: the local dictionary is written before the
\* backend has answered.
persist_post_write_first(w, resp) ==
    /\ att[w].pc = "persisting"
    /\ ~att[w].hung
    /\ authorization_data' =
          IF "access_token" \in DOMAIN att[w].payload
          THEN DictSet(authorization_data, att[w].provider,
                       [access_token |-> att[w].payload.access_token])
          ELSE authorization_data
    /\ LET a == [att[w] EXCEPT !.bresp = resp]
       IN IF resp.kind = "unreachable"
          THEN /\ att' = [att EXCEPT ![w] = Finish(a, HTTPException(500))]
               /\ UNCHANGED durable
          ELSE IF resp.status >= 400
          THEN /\ att' = [att EXCEPT ![w] = Finish(a, PersistError(resp.status))]
               /\ UNCHANGED durable
          ELSE /\ att' = [att EXCEPT ![w] = [a EXCEPT !.pc = "saving"]]
               /\ durable' = Append(durable,
                      [system_name |-> a.provider,
                       authorization_data_json |-> json_dumps(a.payload)])
    /\ UNCHANGED <<regVars, actions_authorization_data, served, last_exchanged,
                   handlerVars>>

\* Variant of persist_post: resp.raise_for_status() is left out, so a
\* rejected save falls through to the local write.
persist_post_no_raise(w, resp) ==
    /\ att[w].pc = "persisting"
    /\ ~att[w].hung
    /\ LET a == [att[w] EXCEPT !.bresp = resp]
       IN IF resp.kind = "unreachable"
          THEN /\ att' = [att EXCEPT ![w] = Finish(a, HTTPException(500))]
               /\ UNCHANGED durable
          ELSE IF resp.status >= 400
          THEN /\ att' = [att EXCEPT ![w] = [a EXCEPT !.pc = "saving"]]
               /\ UNCHANGED durable
          ELSE /\ att' = [att EXCEPT ![w] = [a EXCEPT !.pc = "saving"]]
               /\ durable' = Append(durable,
                      [system_name |-> a.provider,
                       authorization_data_json |-> json_dumps(a.payload)])
    /\ UNCHANGED <<regVars, authorization_data, actions_authorization_data, served,
                   last_exchanged, handlerVars>>

\* Lines 25-30 and 50-77: the backend answers the POST.
persist_post(w, resp) ==
    /\ att[w].pc = "persisting"
    /\ ~att[w].hung
    /\ LET a == [att[w] EXCEPT !.bresp = resp]
       IN IF resp.kind = "unreachable"
          THEN /\ att' = [att EXCEPT ![w] = Finish(a, HTTPException(500))]
               /\ UNCHANGED durable
          ELSE IF resp.status >= 400
          THEN /\ att' = [att EXCEPT ![w] = Finish(a, PersistError(resp.status))]
               /\ UNCHANGED durable
          ELSE /\ att' = [att EXCEPT ![w] = [a EXCEPT !.pc = "saving"]]
               /\ durable' = Append(durable,
                      [system_name |-> a.provider,
                       authorization_data_json |-> json_dumps(a.payload)])
    /\ UNCHANGED <<regVars, authorization_data, actions_authorization_data, served,
                   last_exchanged, handlerVars>>

\* Variant of persist_store: the entry is created empty and its
\* access_token is filled in by a second step.
persist_store_piecewise(w) ==
    /\ att[w].pc \in {"saving", "saving fields"}
    /\ LET a == att[w]
       IN IF "access_token" \in DOMAIN a.payload
          THEN IF a.pc = "saving"
               THEN /\ authorization_data' =
                           DictSet(authorization_data, a.provider, EmptyDict)
                    /\ att' = [att EXCEPT ![w] = [a EXCEPT !.pc = "saving fields"]]
               ELSE /\ authorization_data' =
                           DictSet(authorization_data, a.provider,
                                   [access_token |-> a.payload.access_token])
                    /\ att' = [att EXCEPT ![w] =
                                 Finish([a EXCEPT !.writes = @ + 1],
                                   JSONResponse(a.bresp.status))]
          ELSE /\ att' = [att EXCEPT ![w] = Finish(a, RawValueError)]
               /\ UNCHANGED authorization_data
    /\ UNCHANGED <<regVars, actions_authorization_data, durable, served, last_exchanged,
                   handlerVars>>

\* Variant of persist_store: the dictionary is rebound to one holding only
\* the system just saved.
persist_store_rebind(w) ==
    /\ att[w].pc = "saving"
    /\ LET a == att[w]
       IN IF "access_token" \in DOMAIN a.payload
          THEN /\ authorization_data' =
                      DictSet(EmptyDict, a.provider,
                              [access_token |-> a.payload.access_token])
               /\ att' = [att EXCEPT ![w] =
                            Finish([a EXCEPT !.writes = @ + 1],
                                   JSONResponse(a.bresp.status))]
          ELSE /\ att' = [att EXCEPT ![w] = Finish(a, RawValueError)]
               /\ UNCHANGED authorization_data
    /\ UNCHANGED <<regVars, actions_authorization_data, durable, served,
                   last_exchanged, handlerVars>>

\* Lines 32-48: the local write and the response.
persist_store(w) ==
    /\ att[w].pc = "saving"
    /\ LET a == att[w]
       IN IF "access_token" \in DOMAIN a.payload
          THEN /\ authorization_data' =
                      DictSet(authorization_data, a.provider,
                              [access_token |-> a.payload.access_token])
               /\ att' = [att EXCEPT ![w] =
                            Finish([a EXCEPT !.writes = @ + 1],
                                   JSONResponse(a.bresp.status))]
          ELSE /\ att' = [att EXCEPT ![w] = Finish(a, RawValueError)]
               /\ UNCHANGED authorization_data
    /\ UNCHANGED <<regVars, actions_authorization_data, durable, served, last_exchanged, handlerVars>>

\* --------------------------------------------- the blocking requests calls
\* main.py 80-88 and hackathon_utils.py 27-29 call requests.post without a
\* timeout argument, which requests takes as "wait without limit".
requests_timeout == None

\* The remote side of the call a callback waits on never answers.  With a
\* timeout the call would end in a requests exception; without one the
\* worker thread stays in the call.
remote_silent(w) ==
    /\ att[w].pc \in {"exchanging", "persisting"}
    /\ ~att[w].hung
    /\ att' = [att EXCEPT ![w] =
                 IF requests_timeout = None
                 THEN [att[w] EXCEPT !.hung = TRUE]
                 ELSE Finish(att[w], RawRequestException)]
    /\ UNCHANGED <<regVars, authorization_data, actions_authorization_data, durable,
                   served, last_exchanged, handlerVars>>

\* ------------------------------------------------ main.py get_todoist_token
\* authorization_services/todoist.py callback(code, state, error), entry
\* part: an attempt goes on to the token endpoint only with a code and
\* without an error; anything else is answered as a bad request.
todoist_callback_rejects(code, state, error) ==
    Truthy(error) \/ ~Truthy(code)

\* Lines 50-57: the three provider error codes, then todoist.callback starts
\* its token-endpoint call.
get_todoist_token(w, code, state, error) ==
    /\ Free(w)
    /\ served < MaxCallbacks
    /\ served' = served + 1
    /\ LET a == [IdleAttempt EXCEPT !.provider = "Todoist",
                                    !.code = code, !.error = error]
       IN att' = [att EXCEPT ![w] =
                    IF error = "invalid_application_status"
                    THEN Finish(a, HTTPException(500))
                    ELSE IF error = "invalid_scope"
                    THEN Finish(a, HTTPException(400))
                    ELSE IF error = "access_denied"
                    THEN Finish(a, HTTPException(403))
                    ELSE IF todoist_callback_rejects(code, state, error)
                    THEN Finish(a, HTTPException(400))
                    ELSE [a EXCEPT !.pc = "exchanging", !.xcalls = @ + 1]]
    /\ UNCHANGED <<regVars, authorization_data, actions_authorization_data, durable,
                   last_exchanged, handlerVars>>

\* authorization_services/todoist.py callback, exchange part, then lines
\* 58-60: a failed exchange is raised as a classified error, a payload goes
\* to save_authorization_data_and_return_response.
todoist_callback(w, resp, payload) ==
    /\ att[w].pc = "exchanging"
    /\ ~att[w].hung
    /\ att[w].provider = "Todoist"
    /\ LET a == [att[w] EXCEPT !.xresp = resp]
       IN IF resp.kind = "unreachable"
          THEN /\ att' = [att EXCEPT ![w] = Finish(a, HTTPException(500))]
               /\ UNCHANGED last_exchanged
          ELSE IF resp.status >= 400
          THEN /\ att' = [att EXCEPT ![w] = Finish(a, HTTPException(resp.status))]
               /\ UNCHANGED last_exchanged
          ELSE /\ att' = [att EXCEPT ![w] =
                            [a EXCEPT !.pc = "persisting", !.payload = payload,
                                      !.bcalls = @ + 1]]
               /\ last_exchanged' = [last_exchanged EXCEPT !["Todoist"] = w]
    /\ UNCHANGED <<regVars, authorization_data, actions_authorization_data, durable,
                   served, handlerVars>>

\* ------------------------------------------- main.py authorize endpoints
\* Lines 63-70 (and 39-41): build and return the redirect URL.
authorize_in_github ==
    /\ issued' = issued \cup {"GitHub"}
    /\ UNCHANGED <<regVars, authorization_data, actions_authorization_data, durable,
                   att, served, last_exchanged, calls, invoked>>

authorize_in_todoist ==
    /\ issued' = issued \cup {"Todoist"}
    /\ UNCHANGED <<regVars, authorization_data, actions_authorization_data, durable,
                   att, served, last_exchanged, calls, invoked>>

\* --------------------------------------------- actions/GitHub/actions.py
\* The registered handlers, in the order of the file.
GitHubActions ==
    {"create_issue", "create_repository", "delete_repository", "get_issue",
     "update_issue", "close_issue", "list_issues", "get_repository_info",
     "star_repository", "unstar_repository", "list_branches", "create_branch",
     "delete_branch", "get_file_content", "create_file", "update_file",
     "delete_file", "create_pull_request", "list_pull_requests",
     "merge_pull_request", "close_pull_request"}

\* Handlers that compare the status with 204 before raise_for_status().
Checks204 ==
    {"delete_repository", "star_repository", "unstar_repository",
     "delete_branch"}

\* Handlers that read the file's sha and then send the mutating request.
TwoStep == {"update_file", "delete_file"}

\* Line 70 and its comment: the module's dictionary starts empty and is
\* filled by the action runtime (team_actions/src/utils, registration) with
\* the authorization data the durable backend holds for each system.
LatestSaved(s) ==
    LET idx == {i \in 1..Len(durable) : durable[i].system_name = s}
        last == CHOOSE i \in idx : \A j \in idx : j <= i
    IN json_loads(durable[last].authorization_data_json)

SavedSystems == {durable[i].system_name : i \in 1..Len(durable)}

fill_authorization_data ==
    /\ SavedSystems # {}
    /\ actions_authorization_data' = [s \in SavedSystems |-> LatestSaved(s)]
    /\ actions_authorization_data' # actions_authorization_data
    /\ UNCHANGED <<regVars, authorization_data, durable, att, served, last_exchanged,
                   issued, calls, invoked>>

\* token = authorization_data.get("GitHub", {}).get("access_token")
read_token(store) ==
    DictGet(DictGet(store, "GitHub", EmptyDict), "access_token", None)

\* Variant of token_missing: the check is skipped.
token_missing_never(token) == FALSE

\* if not token: raise ValueError("Authorization token for GitHub is missing.")
token_missing(token) == ~Truthy(token)

MissingToken == [kind |-> "ValueError: token missing", status |-> 0]
Returned(st) == [kind |-> "return", status |-> st]

\* A GitHub callback has returned "Authorization successful and data saved."
GitHubAuthorized ==
    \E w \in Workers : /\ att[w].pc = "done"
                       /\ att[w].provider = "GitHub"
                       /\ att[w].result = JSONResponse(200)

CallFree(c) == calls[c].pc \in {"idle", "done"}

\* The path of the provider URL a handler requests, as its segments below
\* https://api.github.com; arguments other than repo stand for themselves.
\* Lines 278, 315, 399 and 585 put the literal segment Fugaret before repo.
url_suffix(action) ==
    CASE action \in {"create_issue", "list_issues"} -> <<"issues">>
      [] action \in {"get_issue", "update_issue", "close_issue"} ->
            <<"issues", "{issue_number}">>
      [] action = "list_branches" -> <<"branches">>
      [] action = "create_branch" -> <<"git", "refs">>
      [] action = "delete_branch" ->
            <<"git", "refs", "heads", "{branch_name}">>
      [] action \in {"get_file_content", "create_file", "update_file",
                     "delete_file"} -> <<"contents", "{file_path}">>
      [] action \in {"create_pull_request", "list_pull_requests"} ->
            <<"pulls">>
      [] action = "merge_pull_request" ->
            <<"pulls", "{pull_number}", "merge">>
      [] action = "close_pull_request" -> <<"pulls", "{pull_number}">>
      [] OTHER -> <<>>

request_url(action, repo) ==
    IF action = "create_repository" THEN <<"user", "repos">>
    ELSE IF action \in {"star_repository", "unstar_repository"}
    THEN <<"user", "starred", repo>>
    ELSE IF action \in {"update_issue", "close_issue", "get_repository_info",
                        "delete_branch"}
    THEN <<"repos", "Fugaret", repo>> \o url_suffix(action)
    ELSE <<"repos", repo>> \o url_suffix(action)

\* Variant of invoke: the lookup is authorization_data.setdefault("GitHub",
\* {}) instead of .get, which inserts the key it does not find.
invoke_setdefault(c, action, repo) ==
    /\ CallFree(c)
    /\ invoked < MaxInvocations
    /\ invoked' = invoked + 1
    /\ actions_authorization_data' =
          IF "GitHub" \in DOMAIN actions_authorization_data
          THEN actions_authorization_data
          ELSE DictSet(actions_authorization_data, "GitHub", EmptyDict)
    /\ LET token == read_token(actions_authorization_data)
           call == [IdleCall EXCEPT !.action = action, !.repo = repo,
                                    !.authorized = GitHubAuthorized,
                                    !.reads = 1]
       IN calls' = [calls EXCEPT ![c] =
                      IF token_missing(token)
                      THEN [call EXCEPT !.pc = "done", !.result = MissingToken]
                      ELSE [call EXCEPT !.pc = "requesting", !.token = token,
                                        !.sent = 1,
                                        !.url = request_url(action, repo),
                                        !.bearer = <<token>>]]
    /\ UNCHANGED <<regVars, authorization_data, durable, att, served, last_exchanged,
                   issued>>

\* Every handler begins alike (e.g. create_issue, lines 100-117): read the
\* token, raise if it is missing, otherwise send the first request.
invoke(c, action, repo) ==
    /\ CallFree(c)
    /\ invoked < MaxInvocations
    /\ invoked' = invoked + 1
    /\ LET token == read_token(actions_authorization_data)
           call == [IdleCall EXCEPT !.action = action, !.repo = repo,
                                    !.authorized = GitHubAuthorized,
                                    !.reads = 1]
       IN calls' = [calls EXCEPT ![c] =
                      IF token_missing(token)
                      THEN [call EXCEPT !.pc = "done", !.result = MissingToken]
                      ELSE [call EXCEPT !.pc = "requesting", !.token = token,
                                        !.sent = 1,
                                        !.url = request_url(action, repo),
                                        !.bearer = <<token>>]]
    /\ UNCHANGED <<regVars, authorization_data, actions_authorization_data, durable,
                   att, served, last_exchanged, issued>>

\* The outcome of response.raise_for_status() followed by a return.
raise_for_status(resp) ==
    IF resp.kind = "unreachable" THEN RawRequestException
    ELSE IF resp.status >= 400 THEN RawHTTPError(resp.status)
    ELSE Returned(resp.status)

\* A normal return of the "Failed to ..." message.
ReturnedFailed(st) == [kind |-> "return failed-message", status |-> st]

\* How a handler ends on the answer to its last request.  Most handlers call
\* raise_for_status() and return the body; delete_repository 197-201,
\* star_repository 442-446, unstar_repository 479-483 and delete_branch
\* 593-597 return the success message on 204 and otherwise call
\* raise_for_status() and then return the "Failed to ..." message.
handler_outcome(action, resp) ==
    IF action \in Checks204
    THEN IF resp.kind = "response" /\ resp.status = 204
         THEN Returned(204)
         ELSE IF raise_for_status(resp).kind = "return"
         THEN ReturnedFailed(resp.status)
         ELSE raise_for_status(resp)
    ELSE raise_for_status(resp)

RawKeyError == [kind |-> "KeyError: sha", status |-> 0]

\* Variant of provider_response: update_file and delete_file send their
\* mutating request whatever the contents read answered.
provider_response_blind(c, resp, sha) ==
    /\ calls[c].pc = "requesting"
    /\ IF calls[c].action \in TwoStep /\ raise_for_status(resp).kind = "return"
       THEN sha \in Shas \cup {None}
       ELSE sha = None
    /\ LET call == [calls[c] EXCEPT !.get_response = resp]
       IN calls' = [calls EXCEPT ![c] =
            IF call.action \in TwoStep
            THEN [call EXCEPT !.pc = "requesting2", !.sha = sha, !.sent = 2,
                              !.body_sha = sha,
                              !.bearer = Append(@, call.token)]
            ELSE [call EXCEPT !.pc = "done",
                              !.result = handler_outcome(call.action, resp)]]
    /\ UNCHANGED <<regVars, authorization_data, actions_authorization_data, durable,
                   att, served, last_exchanged, issued, invoked>>

\* Variant of provider_response: update_file and delete_file look the token
\* up again for their mutating request.
provider_response_reread(c, resp, sha) ==
    /\ calls[c].pc = "requesting"
    /\ IF calls[c].action \in TwoStep /\ raise_for_status(resp).kind = "return"
       THEN sha \in Shas \cup {None}
       ELSE sha = None
    /\ LET call == [calls[c] EXCEPT !.get_response = resp]
           out == raise_for_status(resp)
       IN calls' = [calls EXCEPT ![c] =
            IF call.action \in TwoStep /\ out.kind = "return"
            THEN IF sha = None
                 THEN [call EXCEPT !.pc = "done", !.result = RawKeyError]
                 ELSE [call EXCEPT !.pc = "requesting2", !.sha = sha,
                                   !.sent = 2, !.body_sha = sha,
                                   !.reads = @ + 1,
                                   !.token =
                                      read_token(actions_authorization_data),
                                   !.bearer = Append(@,
                                      read_token(actions_authorization_data))]
            ELSE [call EXCEPT !.pc = "done",
                              !.result = handler_outcome(call.action, resp)]]
    /\ UNCHANGED <<regVars, authorization_data, actions_authorization_data, durable,
                   att, served, last_exchanged, issued, invoked>>

\* The provider answers the first request of a handler; sha is
\* file_data["sha"] of a successful contents read, None when the body has no
\* such key.
provider_response(c, resp, sha) ==
    /\ calls[c].pc = "requesting"
    /\ IF calls[c].action \in TwoStep /\ raise_for_status(resp).kind = "return"
       THEN sha \in Shas \cup {None}
       ELSE sha = None
    /\ LET call == [calls[c] EXCEPT !.get_response = resp]
           out == raise_for_status(resp)
       IN calls' = [calls EXCEPT ![c] =
            IF call.action \in TwoStep /\ out.kind = "return"
            THEN \* update_file 718-747, delete_file 779-804
                 IF sha = None
                 THEN [call EXCEPT !.pc = "done", !.result = RawKeyError]
                 ELSE [call EXCEPT !.pc = "requesting2", !.sha = sha,
                                   !.sent = 2, !.body_sha = sha,
                                   !.bearer = Append(@, call.token)]
            ELSE [call EXCEPT !.pc = "done",
                              !.result = handler_outcome(call.action, resp)]]
    /\ UNCHANGED <<regVars, authorization_data, actions_authorization_data, durable,
                   att, served, last_exchanged, issued, invoked>>

\* The provider answers the PUT / DELETE of update_file / delete_file.
provider_response2(c, resp) ==
    /\ calls[c].pc = "requesting2"
    /\ calls' = [calls EXCEPT ![c] =
                   [calls[c] EXCEPT !.pc = "done",
                                    !.result = raise_for_status(resp)]]
    /\ UNCHANGED <<regVars, authorization_data, actions_authorization_data, durable,
                   att, served, last_exchanged, issued, invoked>>

\* ------------------------------------------- team_actions action registry
MaxImports == 2

\* The decorated functions of actions/GitHub/actions.py in file order; each
\* @register_action(system_type="version_control_system", ...) decorates a
\* def whose name is the action's name.
GitHubNames ==
    <<"create_issue", "create_repository", "delete_repository", "get_issue",
      "update_issue", "close_issue", "list_issues", "get_repository_info",
      "star_repository", "unstar_repository", "list_branches",
      "create_branch", "delete_branch", "get_file_content", "create_file",
      "update_file", "delete_file", "create_pull_request",
      "list_pull_requests", "merge_pull_request", "close_pull_request">>

\* An action descriptor; handler identifies the decorated function object by
\* its module and its position among the module's decorated functions.
Descriptor(system_type, name, module, def) ==
    [system_type |-> system_type, name |-> name,
     handler |-> [module |-> module, def |-> def]]

\* Variant of GitHubModule: the last decorated function is a second def named
\* create_issue.
GitHubModule_second_create_issue ==
    [i \in 1..Len(GitHubNames) |->
        Descriptor("version_control_system",
                   IF i = Len(GitHubNames) THEN "create_issue"
                   ELSE GitHubNames[i],
                   "GitHub", i)]

\* What importing actions/GitHub/actions.py registers.
GitHubModule ==
    [i \in 1..Len(GitHubNames) |->
        Descriptor("version_control_system", GitHubNames[i], "GitHub", i)]

\* actions/Todoist/actions.py is imported by router.py line 4 and is outside
\* the sources at hand: the contents it may have, among them one that
\* declares an action under a pair the GitHub module uses and one that
\* declares the same pair twice.
TodoistModules ==
    {<<Descriptor("task_tracker", "create_task", "Todoist", 1)>>,
     <<Descriptor("task_tracker", "create_task", "Todoist", 1),
       Descriptor("task_tracker", "close_task", "Todoist", 2)>>,
     <<Descriptor("task_tracker", "create_task", "Todoist", 1),
       Descriptor("task_tracker", "close_task", "Todoist", 2),
       Descriptor("task_tracker", "get_task", "Todoist", 3)>>,
     <<Descriptor("task_tracker", "create_task", "Todoist", 1),
       Descriptor("version_control_system", "create_issue", "Todoist", 2)>>,
     <<Descriptor("task_tracker", "create_task", "Todoist", 1),
       Descriptor("task_tracker", "create_task", "Todoist", 2)>>}

Key(d) == <<d.system_type, d.name>>

Registered(cat, key) == \E i \in DOMAIN cat : Key(cat[i]) = key

Entry(cat, key) == cat[CHOOSE i \in DOMAIN cat : Key(cat[i]) = key]

\* Variant of register: the descriptor is appended without a look-up.
register_unchecked(cat, d) == [ok |-> TRUE, cat |-> Append(cat, d)]

\* team_actions/src/registration: register a descriptor.  A new pair is
\* appended; the same descriptor again is tolerated and not stored twice; a
\* different descriptor under a registered pair is a DuplicateActionError.
register(cat, d) ==
    IF ~Registered(cat, Key(d)) THEN [ok |-> TRUE, cat |-> Append(cat, d)]
    ELSE IF Entry(cat, Key(d)) = d THEN [ok |-> TRUE, cat |-> cat]
    ELSE [ok |-> FALSE, cat |-> cat]

\* router.py line 10: ActionRouter.add_actions_for_module(todoist_actions).
add_todoist_actions(module) ==
    /\ startup.pc = "start"
    /\ startup' = [startup EXCEPT !.pc = "registering Todoist",
                                  !.queue = module]
    /\ UNCHANGED <<authorization_data, actions_authorization_data, durable,
                   att, served, last_exchanged, handlerVars, catalog>>

\* One decorated function of the module being imported is registered; a
\* DuplicateActionError ends the start-up.
register_action ==
    /\ startup.pc \in {"registering Todoist", "registering GitHub"}
    /\ startup.queue # <<>>
    /\ LET r == register(catalog, Head(startup.queue))
       IN /\ catalog' = r.cat
          /\ startup' = IF r.ok
                        THEN [startup EXCEPT !.queue = Tail(@)]
                        ELSE [startup EXCEPT !.pc = "DuplicateActionError"]
    /\ UNCHANGED <<authorization_data, actions_authorization_data, durable,
                   att, served, last_exchanged, handlerVars>>

\* router.py line 11: ActionRouter.add_actions_for_module(github_actions);
\* the module's registrations run again on an accidental second import.
add_github_actions ==
    /\ \/ startup.pc = "registering Todoist"
       \/ startup.pc = "registering GitHub" /\ startup.imports < MaxImports
    /\ startup.queue = <<>>
    /\ startup' = [startup EXCEPT !.pc = "registering GitHub",
                                  !.queue = GitHubModule,
                                  !.imports = @ + 1]
    /\ UNCHANGED <<authorization_data, actions_authorization_data, durable,
                   att, served, last_exchanged, handlerVars, catalog>>

\* router.py line 14: action_router = ActionRouter(); start-up is over.
router_ready ==
    /\ startup.pc = "registering GitHub"
    /\ startup.queue = <<>>
    /\ startup' = [startup EXCEPT !.pc = "ready"]
    /\ UNCHANGED <<authorization_data, actions_authorization_data, durable,
                   att, served, last_exchanged, handlerVars, catalog>>

\* ----------------------------------------------------------- specifications
\* The broker alone, two overlapping callbacks, both providers.
CoarseResponses == {Response(200), Response(500), Unreachable}

NextBroker ==
    \/ \E w \in Workers, code \in Codes, error \in Errors :
          get_github_token(w, code, error)
    \/ \E w \in Workers, resp \in CoarseResponses, payload \in Payloads :
          github_token_response(w, resp, payload)
    \/ \E w \in Workers, code \in Codes, error \in Errors :
          get_todoist_token(w, code, "some_secret_state", error)
    \/ \E w \in Workers, resp \in CoarseResponses, payload \in Payloads :
          todoist_callback(w, resp, payload)
    \/ \E w \in Workers, resp \in CoarseResponses : persist_post(w, resp)
    \/ \E w \in Workers : persist_store(w)

SpecBroker == Init /\ [][NextBroker]_vars

\* The broker with a remote side that may stay silent.
NextBlocking ==
    \/ \E w \in Workers, code \in Codes : get_github_token(w, code, None)
    \/ \E w \in Workers, resp \in CoarseResponses, t \in Tokens :
          github_token_response(w, resp, GrantPayload(t))
    \/ \E w \in Workers : get_todoist_token(w, "abc", "some_secret_state", None)
    \/ \E w \in Workers, resp \in CoarseResponses, t \in Tokens :
          todoist_callback(w, resp, GrantPayload(t))
    \/ \E w \in Workers, resp \in CoarseResponses : persist_post(w, resp)
    \/ \E w \in Workers : persist_store(w)
    \/ \E w \in Workers : remote_silent(w)

SpecBlocking == Init /\ [][NextBlocking]_vars

\* The start-up of team_actions: router.py imports and registers the modules.
NextRegister ==
    \/ \E module \in TodoistModules : add_todoist_actions(module)
    \/ register_action
    \/ add_github_actions
    \/ router_ready

SpecRegister == Init /\ [][NextRegister]_vars

\* The two-step file handlers beside GitHub callbacks that supersede the
\* stored token: every sha, every answer to the read and to the write.
NextFiles ==
    \/ get_github_token("w1", "abc", None)
    \/ \E t \in Tokens : github_token_response("w1", Response(200), GrantPayload(t))
    \/ persist_post("w1", Response(200))
    \/ persist_store("w1")
    \/ fill_authorization_data
    \/ \E c \in Callers, action \in TwoStep \cup {"get_file_content"} :
          invoke(c, action, "a/b")
    \/ \E c \in Callers, resp \in HandlerResponses, sha \in Shas \cup {None} :
          provider_response(c, resp, sha)
    \/ \E c \in Callers, resp \in HandlerResponses : provider_response2(c, resp)

SpecFiles == Init /\ [][NextFiles]_vars

\* One callback at a time, every backend answer.
NextPersist ==
    \/ \E code \in Codes : get_github_token("w1", code, None)
    \/ \E resp \in ProviderResponses, payload \in Payloads :
          github_token_response("w1", resp, payload)
    \/ \E code \in Codes : get_todoist_token("w1", code, "some_secret_state", None)
    \/ \E resp \in ProviderResponses, payload \in Payloads :
          todoist_callback("w1", resp, payload)
    \/ \E resp \in BackendResponses : persist_post("w1", resp)
    \/ persist_store("w1")

SpecPersist == Init /\ [][NextPersist]_vars

\* Broker and handlers together: one callback at a time.
NextActions ==
    \/ \E code \in {None, "abc"}, error \in {None, "access_denied"} :
          get_github_token("w1", code, error)
    \/ \E resp \in {Response(200), Response(500)}, payload \in Payloads :
          github_token_response("w1", resp, payload)
    \/ get_todoist_token("w1", "abc", "some_secret_state", None)
    \/ \E resp \in {Response(200), Response(500)}, t \in Tokens :
          todoist_callback("w1", resp, GrantPayload(t))
    \/ \E resp \in CoarseResponses : persist_post("w1", resp)
    \/ persist_store("w1")
    \/ fill_authorization_data
    \/ \E c \in Callers, action \in GitHubActions : invoke(c, action, "a/b")
    \/ \E c \in Callers, resp \in {Response(200), Response(404)},
          sha \in {"sha1", None} : provider_response(c, resp, sha)
    \/ \E c \in Callers, resp \in {Response(200), Response(404)} :
          provider_response2(c, resp)

Spec == Init /\ [][NextActions]_vars

\* Every kind of operation side by side: the authorize endpoints, GitHub
\* callbacks, the filling of the handlers' dictionary and the handlers.
NextFrame ==
    \/ authorize_in_github
    \/ authorize_in_todoist
    \/ \E code \in {None, "abc"}, error \in {None, "access_denied"} :
          get_github_token("w1", code, error)
    \/ \E resp \in {Response(200), Response(500)}, payload \in Payloads :
          github_token_response("w1", resp, payload)
    \/ \E resp \in CoarseResponses : persist_post("w1", resp)
    \/ persist_store("w1")
    \/ fill_authorization_data
    \/ \E c \in Callers, action \in GitHubActions : invoke(c, action, "a/b")
    \/ \E c \in Callers, resp \in {Response(200), Response(404)},
          sha \in {"sha1", None} : provider_response(c, resp, sha)
    \/ \E c \in Callers, resp \in {Response(200), Response(404)} :
          provider_response2(c, resp)

SpecFrame == Init /\ [][NextFrame]_vars

\* ================================================================== claims

\* A persist step of worker w that ends the callback with an error: the
\* backend answered with an error status or could not be reached.
PersistFails(w) == att[w].pc = "persisting" /\ att'[w].pc = "done"

\* C1: a persist that fails (backend status >= 400 or backend unreachable)
\* leaves both dictionaries exactly as they were, whatever they held and
\* whatever the system; and as long as no GitHub save has been accepted,
\* every handler invoked so far has failed with the missing-token error
\* without sending a request.
C1_FailedPersistKeepsStore ==
    /\ [][\A w \in Workers :
            PersistFails(w) =>
               /\ authorization_data' = authorization_data
               /\ actions_authorization_data' = actions_authorization_data]_vars
    /\ [](\A c \in Callers :
            ("GitHub" \notin SavedSystems /\ calls[c].pc # "idle") =>
               (calls[c].result = MissingToken /\ calls[c].sent = 0))

\* C1 witness: a GitHub persist has failed while the store held a prior
\* Todoist entry, and a handler invoked afterwards got the missing-token error.
C1_Witness ==
    /\ att["w1"].pc = "done"
    /\ att["w1"].provider = "GitHub"
    /\ att["w1"].bresp = Response(500)
    /\ att["w1"].result = HTTPException(502)
    /\ "Todoist" \in DOMAIN authorization_data
    /\ "GitHub" \notin DOMAIN authorization_data
    /\ calls["c1"].pc = "done"
    /\ calls["c1"].result = MissingToken

\* C2 (as claimed): a handler invoked after a GitHub callback has returned
\* "Authorization successful and data saved." does not fail with the
\* missing-token error.
C2_ImmediatelyVisible ==
    \A c \in Callers :
        calls[c].authorized => calls[c].result # MissingToken

\* C3: a handler invoked while its dictionary has no GitHub entry ends at
\* once with the missing-token error and no request; and whenever a handler
\* has sent a request, the dictionary holds a GitHub entry.
C3_NoCallWithoutToken ==
    /\ [][\A c \in Callers :
            (/\ CallFree(c)
             /\ calls'[c] # calls[c]
             /\ "GitHub" \notin DOMAIN actions_authorization_data) =>
               (/\ calls'[c].pc = "done"
                /\ calls'[c].result = MissingToken
                /\ calls'[c].sent = 0)]_vars
    /\ [](\A c \in Callers :
            calls[c].sent > 0 =>
               /\ "GitHub" \in DOMAIN actions_authorization_data
               /\ Truthy(calls[c].token))

\* C3 witness: update_file was invoked with no GitHub entry and raised.
C3_Witness ==
    /\ "GitHub" \notin DOMAIN actions_authorization_data
    /\ calls["c1"].action = "update_file"
    /\ calls["c1"].pc = "done"
    /\ calls["c1"].result = MissingToken
    /\ calls["c1"].sent = 0

\* C4: every entry of the broker's dictionary holds exactly the access
\* token of a payload that the durable backend accepted for that system.
C4_StoredTokensWereSaved ==
    \A s \in DOMAIN authorization_data :
        \E i \in 1..Len(durable) :
            LET saved == json_loads(durable[i].authorization_data_json)
            IN /\ durable[i].system_name = s
               /\ "access_token" \in DOMAIN saved
               /\ authorization_data[s] = [access_token |-> saved.access_token]

\* C4 witness: an entry exists although a later persist for the same system
\* was refused by the backend.
C4_Witness ==
    /\ "GitHub" \in DOMAIN authorization_data
    /\ \E w \in Workers :
          /\ att[w].provider = "GitHub"
          /\ att[w].pc = "done"
          /\ att[w].bresp = Response(500)
          /\ "access_token" \in DOMAIN att[w].payload
          /\ att[w].payload.access_token # authorization_data["GitHub"].access_token

\* C5 (as claimed): a callback that carries an error is rejected at once:
\* no token-endpoint call, no backend call.
C5_ErrorRejects ==
    \A w \in Workers :
        Truthy(att[w].error) =>
            /\ att[w].pc = "done"
            /\ att[w].result.kind = "HTTPException"
            /\ att[w].xresp = NoResponse
            /\ att[w].bresp = NoResponse

\* The mapping of section 4.3: provider error code -> client-facing status.
RejectionStatus(error) ==
    IF error = "access_denied" THEN 403
    ELSE IF error = "invalid_scope" THEN 400
    ELSE 500

\* C6 (as claimed): on both callback endpoints access_denied ends in 403,
\* invalid_scope in 400 and invalid_application_status in 500.
C6_ErrorMapping ==
    \A w \in Workers :
        (att[w].pc = "done" /\ Truthy(att[w].error)) =>
            att[w].result = HTTPException(RejectionStatus(att[w].error))

\* C7 (as claimed): a callback whose token-endpoint payload has no
\* access_token ends with the "No access token found" error.
C7_MalformedEndsInValueError ==
    \A w \in Workers :
        (att[w].pc = "done" /\ att[w].payload = MalformedPayload) =>
            att[w].result = RawValueError

\* C8 (as claimed): a GitHub callback whose token-endpoint call failed ends
\* with a classified error.
C8_ExchangeFailureClassified ==
    \A w \in Workers :
        (/\ att[w].pc = "done"
         /\ att[w].provider = "GitHub"
         /\ att[w].xresp # NoResponse
         /\ att[w].bresp = NoResponse) =>
            att[w].result.kind = "HTTPException"

\* The step in which worker w writes the local dictionary and returns.
StoreWrite(w) ==
    /\ att[w].pc = "saving"
    /\ att'[w].pc = "done"
    /\ att'[w].result.kind = "JSONResponse"

\* C9: the broker's dictionary changes only in the store-write step of a
\* persist; the authorize endpoints, every other callback step and every
\* handler step leave both dictionaries unchanged.
C9_OnlyPersistWrites ==
    [][/\ authorization_data' # authorization_data =>
             \E w \in Workers : StoreWrite(w)
       /\ (calls' # calls \/ issued' # issued) =>
             /\ authorization_data' = authorization_data
             /\ actions_authorization_data' = actions_authorization_data
       /\ att' # att =>
             actions_authorization_data' = actions_authorization_data
       /\ \A w \in Workers :
             (att'[w] # att[w] /\ ~StoreWrite(w)) =>
                authorization_data' = authorization_data]_vars

\* C9 witness: the store holds an entry, a callback was rejected after it,
\* an authorize URL was issued and a handler has run to the end of a request.
C9_Witness ==
    /\ "GitHub" \in DOMAIN authorization_data
    /\ att["w1"].pc = "done"
    /\ att["w1"].result = HTTPException(403)
    /\ issued # {}
    /\ calls["c1"].pc = "done"
    /\ calls["c1"].sent > 0

\* C10 (as claimed): when both workers have completed a successful
\* authorization for the same system, the stored token is the one of the
\* later exchange.
C10_LatestExchangeWins ==
    \A s \in Systems :
        (\A w \in Workers : /\ att[w].pc = "done"
                            /\ att[w].provider = s
                            /\ att[w].result.kind = "JSONResponse") =>
            authorization_data[s] =
                [access_token |-> att[last_exchanged[s]].payload.access_token]

\* C11: whenever anyone looks at the broker's dictionary, also while a
\* persist for the same system is between its backend call and its write,
\* each entry is complete: exactly the field access_token, holding a token;
\* and a step changes an entry only from absent or complete to the complete
\* entry of the writing callback's payload.
C11_EntriesAreWhole ==
    /\ [](\A s \in DOMAIN authorization_data :
            /\ DOMAIN authorization_data[s] = {"access_token"}
            /\ authorization_data[s].access_token \in Tokens)
    /\ [][\A s \in Systems :
            (/\ s \in DOMAIN authorization_data'
             /\ \/ s \notin DOMAIN authorization_data
                \/ authorization_data'[s] # authorization_data[s]) =>
               \E w \in Workers :
                  /\ att[w].pc = "saving"
                  /\ att[w].provider = s
                  /\ "access_token" \in DOMAIN att[w].payload
                  /\ authorization_data'[s] =
                        [access_token |-> att[w].payload.access_token]]_vars

\* C11 witness: the store holds t1 for GitHub while the other callback's
\* persist of t2 for GitHub is about to write.
C11_Witness ==
    /\ "GitHub" \in DOMAIN authorization_data
    /\ authorization_data["GitHub"].access_token = "t1"
    /\ \E w \in Workers :
          /\ att[w].pc = "saving"
          /\ att[w].provider = "GitHub"
          /\ att[w].payload = GrantPayload("t2")

\* C12: one callback sends at most one request to the token endpoint and at
\* most one to the backend and writes the store at most once; a callback
\* that answered success sent exactly one of each and wrote exactly once; a
\* callback that ended in an error wrote nothing and sent nothing after the
\* call that failed.
C12_SingleAttempt ==
    \A w \in Workers :
       LET a == att[w]
       IN /\ a.xcalls <= 1 /\ a.bcalls <= 1 /\ a.writes <= 1
          /\ a.bcalls <= a.xcalls
          /\ a.writes <= a.bcalls
          /\ a.result.kind = "JSONResponse" =>
                a.xcalls = 1 /\ a.bcalls = 1 /\ a.writes = 1
          /\ (a.pc = "done" /\ a.result.kind # "JSONResponse") =>
                /\ a.writes = 0
                /\ a.xresp = NoResponse => a.xcalls = 0
                /\ a.bresp = NoResponse => a.bcalls = 0

\* C12 witness: one callback has answered success and another has ended
\* with a failed token-endpoint call.
C12_Witness ==
    \E w, v \in Workers :
       /\ att[w].pc = "done" /\ att[w].result = JSONResponse(200)
       /\ att[w].writes = 1
       /\ att[v].pc = "done" /\ att[v].provider = "GitHub"
       /\ att[v].xresp = Response(500) /\ att[v].xcalls = 1

\* C13: no callback is ever left waiting without limit on a remote side
\* that does not answer: the outbound call it is in is cut off by a timeout,
\* so no worker hangs in a call.
C13_NoCallWaitsForever ==
    \A w \in Workers : ~att[w].hung

\* C14: a callback whose backend call was answered with a 2xx status and
\* whose payload holds a token has written the store and answers with the
\* success response, never with an "Unexpected response" one.
C14_Every2xxIsSuccess ==
    \A w \in Workers :
       LET a == att[w]
       IN (/\ a.pc = "done"
           /\ a.bresp.kind = "response"
           /\ a.bresp.status \in 200..299
           /\ "access_token" \in DOMAIN a.payload) =>
             /\ a.writes = 1
             /\ a.result.kind = "JSONResponse"
             /\ a.result.message = "Authorization successful and data saved."

\* C15: a callback whose save the backend rejected or could not be reached
\* for ends with a classified error and never with a response: backend
\* status 400, 401, 403, 404 are passed on as such, a status of 500 or more
\* becomes 502, any other error status becomes 500, and a transport failure
\* becomes 500; the store is not written.
C15_PersistFailureMapping ==
    \A w \in Workers :
       LET a == att[w]
           failed == \/ a.bresp.kind = "unreachable"
                     \/ a.bresp.kind = "response" /\ a.bresp.status >= 400
       IN (a.pc = "done" /\ failed) =>
             /\ a.result.kind = "HTTPException"
             /\ a.writes = 0
             /\ a.result.status =
                   IF a.bresp.kind = "unreachable" THEN 500
                   ELSE CASE a.bresp.status \in {400, 401, 403, 404} ->
                                a.bresp.status
                          [] a.bresp.status >= 500 -> 502
                          [] OTHER -> 500

\* C15 witness: one save was answered 500 and reported as 502, or answered
\* 418 and reported as 500.
C15_Witness ==
    \E w \in Workers :
       /\ att[w].pc = "done"
       /\ \/ att[w].bresp = Response(500) /\ att[w].result = HTTPException(502)
          \/ att[w].bresp = Response(418) /\ att[w].result = HTTPException(500)

\* C16: a handler that ended with a normal return value had its provider
\* call answered with the expected success; in particular no handler
\* returns the "Failed to ..." message.
C16_NormalReturnOnlyOnSuccess ==
    \A c \in Callers :
       (calls[c].pc = "done" /\ calls[c].sent > 0) =>
          /\ calls[c].result.kind # "return failed-message"
          /\ calls[c].result.kind = "return" =>
                IF calls[c].action \in Checks204
                THEN calls[c].result.status = 204
                ELSE calls[c].result.status \in 200..299

C18_PathFromRepoAlone ==
    \A c \in Callers :
       (calls[c].sent > 0 /\ calls[c].action # "create_repository") =>
          \/ calls[c].url = <<"repos", calls[c].repo>>
                               \o url_suffix(calls[c].action)
          \/ /\ calls[c].action \in {"star_repository", "unstar_repository"}
             /\ calls[c].url = <<"user", "starred", calls[c].repo>>

\* The order of the steps of one attempt: Pending, then the three stages of
\* Exchanging (token-endpoint call, backend call, local write), then a
\* terminal state.
Stage(pc) ==
    CASE pc = "idle" -> 0
      [] pc = "exchanging" -> 1
      [] pc = "persisting" -> 2
      [] pc = "saving" -> 3
      [] pc = "done" -> 4

\* What one step may do to the attempt of worker w: a free worker takes a new
\* callback, which is rejected or starts its exchange; a running attempt
\* keeps its inputs and moves forward, to the next stage or to a terminal
\* state; the store entry of a system changes only in the last step of an
\* attempt for that system that ends in a response.
AttemptStep(w) ==
    /\ (Free(w) /\ att'[w] # att[w]) =>
          /\ served' = served + 1
          /\ att'[w].pc \in {"done", "exchanging"}
          /\ att'[w].writes = 0
    /\ (~Free(w) /\ att'[w] # att[w]) =>
          /\ att'[w].provider = att[w].provider
          /\ att'[w].code = att[w].code
          /\ \/ Stage(att'[w].pc) = Stage(att[w].pc) + 1
             \/ att'[w].pc = "done"
             \/ att'[w] = [att[w] EXCEPT !.hung = TRUE]
    /\ (~Free(w) /\ att'[w].writes # att[w].writes) =>
          /\ att[w].pc = "saving"
          /\ att'[w].pc = "done"
          /\ att'[w].result.kind = "JSONResponse"
          /\ att'[w].writes = 1

\* C19: every attempt moves only forward through its states, a terminal
\* state is left only by the worker taking a new callback, the store is
\* written at most once per attempt and only in the step that ends it in
\* success, and no attempt is cut off from its terminal state: none stays in
\* a call that will never return.
C19_AttemptStateMachine ==
    /\ [][\A w \in Workers : AttemptStep(w)]_vars
    /\ [][authorization_data' # authorization_data =>
             \E w \in Workers : att'[w].writes = att[w].writes + 1]_vars
    /\ [](\A w \in Workers :
             (att[w].pc \in {"exchanging", "persisting", "saving"}) =>
                 ENABLED (\/ \E resp \in CoarseResponses, t \in Tokens :
                               \/ github_token_response(w, resp, GrantPayload(t))
                               \/ todoist_callback(w, resp, GrantPayload(t))
                          \/ \E resp \in CoarseResponses : persist_post(w, resp)
                          \/ persist_store(w)))

\* The safety half of C19 alone.
C19_ForwardOnly ==
    /\ [][\A w \in Workers : AttemptStep(w)]_vars
    /\ [][authorization_data' # authorization_data =>
             \E w \in Workers : att'[w].writes = att[w].writes + 1]_vars

\* C20: an attempt that has called the token endpoint came from a callback
\* with a code and without an error; a GitHub callback without a code (absent
\* or empty) is answered with HTTPException 400 and has made no outbound call
\* and no store write.
C20_ExchangeNeedsCodeAndNoError ==
    \A w \in Workers :
       LET a == att[w]
       IN /\ a.xcalls > 0 => (Truthy(a.code) /\ ~Truthy(a.error))
          /\ (a.pc = "done" /\ a.provider = "GitHub" /\ ~Truthy(a.code)
                /\ ~Truthy(a.error)) =>
                /\ a.result = HTTPException(400)
                /\ a.xcalls = 0 /\ a.bcalls = 0 /\ a.writes = 0

\* C21: every payload the durable backend has accepted holds an
\* access_token, and an attempt whose token-endpoint payload lacks
\* access_token has made no call to the backend.
C21_BackendGetsOnlyGrants ==
    /\ \A i \in DOMAIN durable :
          "access_token" \in
              DOMAIN json_loads(durable[i].authorization_data_json)
    /\ \A w \in Workers :
          (/\ att[w].xresp.kind = "response"
           /\ att[w].xresp.status < 400
           /\ "access_token" \notin DOMAIN att[w].payload) =>
              att[w].bcalls = 0

\* C22: an update_file or delete_file invocation that has sent its mutating
\* request had its contents read answered with success, and the request
\* carries the sha that read returned; an invocation whose read failed or
\* returned no sha has ended in an error with only the read sent.
C22_ShaReadThenMutate ==
    \A c \in Callers :
       calls[c].action \in TwoStep =>
          /\ calls[c].sent = 2 =>
                /\ calls[c].get_response.kind = "response"
                /\ calls[c].get_response.status < 400
                /\ calls[c].sha \in Shas
                /\ calls[c].body_sha = calls[c].sha
          /\ (\/ calls[c].get_response.kind = "unreachable"
              \/ /\ calls[c].get_response.kind = "response"
                 /\ calls[c].get_response.status >= 400
              \/ /\ calls[c].get_response.kind = "response"
                 /\ calls[c].sha = None) =>
                /\ calls[c].pc = "done"
                /\ calls[c].sent = 1
                /\ calls[c].result.kind \in
                      {"requests.HTTPError", "requests.RequestException",
                       "KeyError: sha"}

\* C22 witness: an update_file whose read returned sha2 has sent its PUT
\* with sha2 and has been answered.
C22_Witness ==
    \E c \in Callers :
       /\ calls[c].action = "update_file"
       /\ calls[c].pc = "done"
       /\ calls[c].sent = 2
       /\ calls[c].get_response = Response(200)
       /\ calls[c].body_sha = "sha2"

\* A step of the persist that worker w runs for its system.
PersistStep(w) ==
    /\ att[w].pc \in {"persisting", "saving"}
    /\ att'[w] # att[w]

\* C23: a step of a persist for system X, whether it fails or succeeds,
\* leaves the entry of every other system, present or absent, as it was;
\* the step that ends a persist for X in a response leaves for X an entry
\* whose only field is access_token, equal to the payload's access_token.
C23_PersistTouchesOwnEntryOnly ==
    [][\A w \in Workers :
          PersistStep(w) =>
             /\ \A y \in Systems \ {att[w].provider} :
                   /\ (y \in DOMAIN authorization_data') =
                         (y \in DOMAIN authorization_data)
                   /\ y \in DOMAIN authorization_data =>
                         authorization_data'[y] = authorization_data[y]
             /\ att'[w].result.kind = "JSONResponse" =>
                   /\ att[w].provider \in DOMAIN authorization_data'
                   /\ DOMAIN authorization_data'[att[w].provider] =
                         {"access_token"}
                   /\ authorization_data'[att[w].provider].access_token =
                         att[w].payload.access_token
             /\ att'[w].result.kind # "JSONResponse" =>
                   authorization_data' = authorization_data]_vars

\* C23 witness: a persist for Todoist has ended in success while the store
\* holds an entry for GitHub, and both entries are there.
C23_Witness ==
    /\ DOMAIN authorization_data = {"GitHub", "Todoist"}
    /\ \E w \in Workers :
          /\ att[w].pc = "done"
          /\ att[w].provider = "Todoist"
          /\ att[w].result.kind = "JSONResponse"
          /\ last_exchanged["GitHub"] # w

\* C24: an invocation has looked the token up exactly once, before its first
\* request, and every request it has sent, the sha read and the write of
\* update_file / delete_file included, carries that token, whatever the
\* dictionaries hold by then; a step that changes either dictionary leaves
\* every invocation as it was.
C24_TokenReadOnce ==
    /\ [](\A c \in Callers :
            calls[c].pc # "idle" =>
               /\ calls[c].reads = 1
               /\ Len(calls[c].bearer) = calls[c].sent
               /\ \A i \in DOMAIN calls[c].bearer :
                     /\ calls[c].bearer[i] = calls[c].token
                     /\ calls[c].bearer[i] = calls[c].bearer[1])
    /\ [][(\/ authorization_data' # authorization_data
           \/ actions_authorization_data' # actions_authorization_data) =>
              calls' = calls]_vars

\* C24 witness: an update_file has sent both requests with t1 while the
\* handlers' dictionary and the broker's dictionary already hold t2.
C24_Witness ==
    \E c \in Callers :
       /\ calls[c].action = "update_file"
       /\ calls[c].bearer = <<"t1", "t1">>
       /\ read_token(actions_authorization_data) = "t2"
       /\ read_token(authorization_data) = "t2"
====
